---- MODULE Spec2Model ----
(***************************************************************************)
(* fast-watershed: the tiled raster reader, the D8 downstream tracer and    *)
(* snapper, the upstream kernel, the delineation orchestrator and the       *)
(* WindowAccumulator mosaic.                                                *)
(*                                                                         *)
(* World coordinates are exact integers: the cell sizes are even, so cell   *)
(* edges and cell centres are both whole numbers and every division the     *)
(* code makes on them is computed without floating-point error.            *)
(*                                                                         *)
(* tick is the parity of the number of steps taken so far: with it, "the     *)
(* running program takes its next step" is a statement about one variable. *)
(*                                                                         *)
(* kernel_calls is the set of windows next_delin has been called for in    *)
(* the running delineation; the code keeps no such record.                 *)
(*                                                                         *)
(* avoid_offsets is the third argument of the kernel of src/aot.py; the    *)
(* orchestrator calls the two-argument kernel, and there it stays empty.   *)
(*                                                                         *)
(* Lists that only a cyclic raster can grow without end (the kernel's      *)
(* stack, basin and edges, and the per-window work stacks) keep at most     *)
(* CountCap copies of one entry; first occurrences keep their order.        *)
(***************************************************************************)
EXTENDS Integers, Sequences, FiniteSets, TLC

VARIABLES ds, streams_ds, fd, stream, block_shape, query, pc, window, ij, found, result,
          stack, list_stack, basin, edges, bucket, coverage, marked_before, readers, kernel_calls, avoid_offsets, tick

vars == <<ds, streams_ds, fd, stream, block_shape, query, pc, window, ij, found, result,
          stack, list_stack, basin, edges, bucket, coverage, marked_before, readers, kernel_calls, avoid_offsets, tick>>

(* ------------------------------ bounds --------------------------------- *)

\* raster height in cells
NRows == 2

\* raster width in cells
NCols == 3

\* most cells of a raster that carry a D8 code 1..8 (the others are 0)
MaxFlow == 2

\* most stream cells of a stream raster
MaxStream == 1

\* most copies of one entry a list keeps
CountCap == 2

\* most cells that carry a code in the rasters of SpecAnyOrder
MaxFlowOrder == 3

\* most cells that carry a code in the rasters of SpecMismatch and SpecOpen
MaxFlowMismatch == 1

\* most cells that carry a code in the rasters of SpecSeam
MaxFlowSeam == 1

\* how far outside a window the indices of SpecLocate reach
LocateReach == 2

(* --------------------------- small helpers ----------------------------- *)

Min2(a, b) == IF a < b THEN a ELSE b

\* the first of the two, whatever the second
keep_first(a, b) == a

Max2(a, b) == IF a > b THEN a ELSE b

MinOf(S) == CHOOSE x \in S : \A y \in S : x <= y

CountIn(seq, e) == Cardinality({k \in 1..Len(seq) : seq[k] = e})

\* list.append, keeping at most CountCap copies of e
SatAppend(seq, e) == IF CountIn(seq, e) >= CountCap THEN seq ELSE Append(seq, e)

\* list.extend under the same cap: more[k] is kept while fewer than CountCap
\* copies of it are in seq or earlier in more
SatExtend(seq, more) ==
    LET keep == {k \in 1..Len(more) :
                    CountIn(seq, more[k])
                        + Cardinality({m \in 1..(k - 1) : more[m] = more[k]}) < CountCap}
        nth(n) == CHOOSE k \in keep : Cardinality({m \in keep : m <= k}) = n
    IN  seq \o [n \in 1..Cardinality(keep) |-> more[nth(n)]]

\* Python's int(round(n / d)) for d > 0: round half to even
RoundDiv(n, d) ==
    LET q == n \div d
        r == n % d
    IN  IF 2 * r < d THEN q
        ELSE IF 2 * r > d THEN q + 1
        ELSE IF q % 2 = 0 THEN q ELSE q + 1

\* the position numpy gives index k on an axis of length n; -1 when it raises
NumpyIndex(k, n) ==
    IF 0 <= k /\ k < n THEN k
    ELSE IF k < 0 /\ k >= -n THEN k + n
    ELSE -1

\* the bound numpy gives a slice end k on an axis of length n
SliceIdx(k, n) == IF k < 0 THEN Max2(0, k + n) ELSE Min2(k, n)

(* ------------------------------ Raster --------------------------------- *)

\* The dataset of the flow-direction raster as rasterio opens it: its size in
\* cells, its cell size, the world coordinates of its top-left corner and its
\* CRS. The default is a raster of NRows x NCols cells.
DefaultDs ==
    [height |-> NRows, width |-> NCols, csx |-> 2, csy |-> 4, top |-> 8, left |-> -6,
     crs |-> "utm", is_tiled |-> TRUE]

Cells == (0..(ds.height - 1)) \X (0..(ds.width - 1))

csx == ds.csx

csy == ds.csy

top == ds.top

left == ds.left

Window(row_off, col_off, height, width) ==
    [row_off |-> row_off, col_off |-> col_off, height |-> height, width |-> width]

\* the number of blocks down and across the raster
n_block_rows == (ds.height + block_shape[1] - 1) \div block_shape[1]

n_block_cols == (ds.width + block_shape[2] - 1) \div block_shape[2]

n_blocks == n_block_rows * n_block_cols

\* the k-th window of ds.block_windows(): row-major, border blocks clipped
block_window(k) ==
    LET bh == block_shape[1]
        bw == block_shape[2]
        bi == (k - 1) \div n_block_cols
        bj == (k - 1) % n_block_cols
    IN  Window(bi * bh, bj * bw, Min2(bh, ds.height - bi * bh), Min2(bw, ds.width - bj * bw))

AllWindows == {block_window(k) : k \in 1..n_blocks}

window_extent(w) ==
    [top    |-> top - w.row_off * csy,
     bottom |-> top - (w.row_off + w.height) * csy,
     left   |-> left + w.col_off * csx,
     right  |-> left + (w.col_off + w.width) * csx]

intersects(x, y, w) ==
    LET window_ext == window_extent(w)
    IN  /\ y <= window_ext.top
        /\ y >= window_ext.bottom
        /\ x >= window_ext.left
        /\ x <= window_ext.right

NoWindow == Window(-1, -1, 0, 0)

\* ok = FALSE stands for the IndexError
intersecting_window(x, y) ==
    LET hits == {k \in 1..n_blocks : intersects(x, y, block_window(k))}
    IN  IF hits = {}
        THEN [ok |-> FALSE, window |-> NoWindow, i |-> 0, j |-> 0]
        ELSE LET w          == block_window(MinOf(hits))
                 window_ext == window_extent(w)
             IN  [ok     |-> TRUE,
                  window |-> w,
                  i      |-> (window_ext.top - y) \div csy,
                  j      |-> (x - window_ext.left) \div csx]

\* the centre of cell (i, j) counted from the raster's corner, whatever the window
xy_from_raster_index(i, j, w) ==
    [x |-> (left + j * csx) + csx \div 2,
     y |-> (top - i * csy) - csy \div 2]

\* the upper left corner of cell (i, j) of the window: no half cell added
xy_from_window_corner(i, j, w) ==
    LET window_ext == window_extent(w)
    IN  [x |-> window_ext.left + j * csx,
         y |-> window_ext.top - i * csy]

xy_from_window_index(i, j, w) ==
    LET window_ext == window_extent(w)
        half_csy   == csy \div 2
        half_csx   == csx \div 2
    IN  [x |-> (window_ext.left + j * csx) + half_csx,
         y |-> (window_ext.top - i * csy) - half_csy]

\* Raster.__getitem__(w)[i, j] for an index inside the window
ReadCell(w, i, j) == fd[<<w.row_off + i, w.col_off + j>>]

\* no Raster has been constructed
NoReaders == [n \in {} |-> 0]

\* Raster.__init__: the dataset is open, data_cache = {}. n_read counts the
\* calls of ds.read per window (up to CountCap).
Raster ==
    [open |-> TRUE, data_cache |-> [w \in {} |-> 0], n_read |-> [w \in {} |-> 0]]

\* a constructor that does not look at ds.is_tiled
raster_init_unchecked(d) == [ok |-> TRUE, reader |-> Raster]

\* Raster(src): ok = FALSE stands for ValueError("Input raster should be
\* tiled"), raised before data_cache is set; no Raster is returned
raster_init(d) ==
    IF ~d.is_tiled
    THEN [ok |-> FALSE, reader |-> NoReaders]
    ELSE [ok |-> TRUE, reader |-> Raster]

\* with Raster(...) as ...: the readers named are constructed
open_readers(names) == [n \in names |-> Raster]

\* self.ds.read(1, window=window): one more read of the window; the array
\* returned is a new buffer, named by the window and the number of its read
ds_read(r, w) ==
    LET n == IF w \in DOMAIN r.n_read THEN Min2(r.n_read[w] + 1, CountCap) ELSE 1
    IN  [reader |-> [r EXCEPT !.n_read =
                        [v \in DOMAIN r.n_read \cup {w} |-> IF v = w THEN n ELSE r.n_read[v]]],
         buffer |-> <<w, n>>]

\* a __getitem__ that reads the dataset every time and stores nothing
getitem_uncached(r, w) == ds_read(r, w)

\* Raster.__getitem__: the reader after the call and the buffer returned
getitem(r, w) ==
    IF w \in DOMAIN r.data_cache
    THEN [reader |-> r, buffer |-> r.data_cache[w]]
    ELSE LET rd == ds_read(r, w)
         IN  [reader |-> [rd.reader EXCEPT !.data_cache =
                             [v \in DOMAIN r.data_cache \cup {w} |->
                                 IF v = w THEN rd.buffer ELSE r.data_cache[v]]],
              buffer |-> rd.buffer]

\* rs with window w read through each of the readers named
read_through(rs, names, w) ==
    [n \in DOMAIN rs |-> IF n \in names THEN getitem(rs[n], w).reader ELSE rs[n]]

\* Raster.__exit__: "self.ds.close" names the method and does not call it
exit_reader(r) == r

\* the end of a with block: __exit__ of every reader
exit_all(rs) == [n \in DOMAIN rs |-> exit_reader(rs[n])]

(* ------------------------- WindowAccumulator --------------------------- *)

\* a buffer allocated with every cell true
Ones(nr, nc) == [p \in (0..(nr - 1)) \X (0..(nc - 1)) |-> TRUE]

Zeros(nr, nc) == [p \in (0..(nr - 1)) \X (0..(nc - 1)) |-> FALSE]

Slice(r0, r1, c0, c1) == [r0 |-> r0, r1 |-> r1, c0 |-> c0, c1 |-> c1]

\* WindowAccumulator.__init__ / from_raster
from_raster(init_window) ==
    [a            |-> Zeros(init_window.height, init_window.width),
     shape        |-> <<init_window.height, init_window.width>>,
     top_accum    |-> top - init_window.row_off * csy,
     bottom_accum |-> top - (init_window.row_off + init_window.height) * csy,
     left_accum   |-> left + init_window.col_off * csx,
     right_accum  |-> left + (init_window.col_off + init_window.width) * csx,
     windows      |-> (init_window :> Slice(0, init_window.height, 0, init_window.width))]

\* no mosaic yet
NoCoverage ==
    [a |-> <<>>, shape |-> <<0, 0>>, top_accum |-> 0, bottom_accum |-> 0,
     left_accum |-> 0, right_accum |-> 0, windows |-> <<>>]

\* the buffer positions a[_slice] covers, as numpy clips them
SliceRows(acc, s) == SliceIdx(s.r0, acc.shape[1]) .. (SliceIdx(s.r1, acc.shape[1]) - 1)

SliceCols(acc, s) == SliceIdx(s.c0, acc.shape[2]) .. (SliceIdx(s.c1, acc.shape[2]) - 1)

\* a slice moved down only
shift_slice_rows(s, top_offset, left_offset) ==
    Slice(s.r0 + top_offset, s.r1 + top_offset, s.c0, s.c1)

\* new_slice, the slice of a registered window in the resized buffer
shift_slice(s, top_offset, left_offset) ==
    Slice(s.r0 + top_offset, s.r1 + top_offset, s.c0 + left_offset, s.c1 + left_offset)

\* a call that starts the mosaic over from the window given
restart_from(acc, w) == from_raster(w)

add_window(acc, w) ==
    IF w \in DOMAIN acc.windows THEN acc
    ELSE
    LET window_top       == top - w.row_off * csy
        window_bottom    == top - (w.row_off + w.height) * csy
        window_left      == left + w.col_off * csx
        window_right     == left + (w.col_off + w.width) * csx
        new_top_accum    == Max2(acc.top_accum, window_top)
        new_bottom_accum == Min2(acc.bottom_accum, window_bottom)
        new_left_accum   == Min2(acc.left_accum, window_left)
        new_right_accum  == Max2(acc.right_accum, window_right)
        new_shape        == <<RoundDiv(new_top_accum - new_bottom_accum, csy),
                              RoundDiv(new_right_accum - new_left_accum, csx)>>
        top_offset       == RoundDiv(new_top_accum - acc.top_accum, csy)
        left_offset      == RoundDiv(acc.left_accum - new_left_accum, csx)
        new_windows      ==
            [v \in (DOMAIN acc.windows) \cup {w} |->
                IF v = w
                THEN Slice(RoundDiv(new_top_accum - window_top, csy),
                           RoundDiv(new_top_accum - window_bottom, csy),
                           RoundDiv(window_left - new_left_accum, csx),
                           RoundDiv(window_right - new_left_accum, csx))
                ELSE shift_slice(acc.windows[v], top_offset, left_offset)]
        \* new_a[new_slice] = self.a[_slice], for every registered window
        copied(p) ==
            LET q == <<p[1] - top_offset, p[2] - left_offset>>
            IN  /\ q \in DOMAIN acc.a
                /\ acc.a[q]
                /\ \E v \in DOMAIN acc.windows :
                       /\ q[1] \in SliceRows(acc, acc.windows[v])
                       /\ q[2] \in SliceCols(acc, acc.windows[v])
    IN  [a            |-> [p \in (0..(new_shape[1] - 1)) \X (0..(new_shape[2] - 1)) |-> copied(p)],
         shape        |-> new_shape,
         top_accum    |-> new_top_accum,
         bottom_accum |-> new_bottom_accum,
         left_accum   |-> new_left_accum,
         right_accum  |-> new_right_accum,
         windows      |-> new_windows]

\* shape of WindowAccumulator.__getitem__(w)
view_shape(acc, w) ==
    LET s == acc.windows[w]
    IN  <<Max2(0, SliceIdx(s.r1, acc.shape[1]) - SliceIdx(s.r0, acc.shape[1])),
          Max2(0, SliceIdx(s.c1, acc.shape[2]) - SliceIdx(s.c0, acc.shape[2]))>>

\* buffer position of cell (i, j) of WindowAccumulator.__getitem__(w)
view_pos(acc, w, i, j) ==
    LET s == acc.windows[w]
    IN  <<SliceIdx(s.r0, acc.shape[1]) + i, SliceIdx(s.c0, acc.shape[2]) + j>>

\* WindowAccumulator.__getitem__(w), as the array of its values
view(acc, w) ==
    LET sh == view_shape(acc, w)
    IN  [p \in (0..(sh[1] - 1)) \X (0..(sh[2] - 1)) |-> acc.a[view_pos(acc, w, p[1], p[2])]]

\* an assignment that sets the first of the indices only
set_true_first(acc, w, idx) ==
    LET sh   == view_shape(acc, w)
        hits == {view_pos(acc, w, NumpyIndex(idx[k][1], sh[1]), NumpyIndex(idx[k][2], sh[2])) :
                    k \in 1..Min2(1, Len(idx))}
    IN  [acc EXCEPT !.a = [p \in DOMAIN acc.a |-> acc.a[p] \/ p \in hits]]

\* coverage[w][tuple(idx.T)] = True for in-range (numpy-resolved) indices
set_true(acc, w, idx) ==
    LET sh   == view_shape(acc, w)
        hits == {view_pos(acc, w, NumpyIndex(idx[k][1], sh[1]), NumpyIndex(idx[k][2], sh[2])) :
                    k \in 1..Len(idx)}
    IN  [acc EXCEPT !.a = [p \in DOMAIN acc.a |-> acc.a[p] \/ p \in hits]]

\* does numpy raise IndexError for some index of idx on view(w)
index_error(acc, w, idx) ==
    LET sh == view_shape(acc, w)
    IN  \E k \in 1..Len(idx) :
            NumpyIndex(idx[k][1], sh[1]) = -1 \/ NumpyIndex(idx[k][2], sh[2]) = -1

(* --------------------- upstream kernel: delineate_task ------------------ *)

nbrs == << <<-1, -1>>, <<-1, 0>>, <<-1, 1>>, <<0, -1>>, <<0, 1>>, <<1, -1>>, <<1, 0>>, <<1, 1>> >>

\* a table that gives each neighbour offset the code that points along it
directions_along_offset == << <<3, 2, 1>>, <<4, 0, 8>>, <<5, 6, 7>> >>

delineate_directions == << <<7, 6, 5>>, <<8, 0, 4>>, <<1, 2, 3>> >>

\* the table read with row and column offset swapped
inverse_code_transposed(row_offset, col_offset) ==
    delineate_directions[col_offset + 2][row_offset + 2]

\* directions[row_offset + 1][col_offset + 1]
inverse_code(row_offset, col_offset) == delineate_directions[row_offset + 2][col_offset + 2]

\* the "Out of bounds?" test, shape = fd.shape
out_of_bounds(t_i, t_j, shape) ==
    t_i < 0 \/ t_j < 0 \/ t_i = shape[1] \/ t_j = shape[1]

\* the index lies inside an array of this shape
in_array(t_i, t_j, shape) ==
    0 <= t_i /\ t_i < shape[1] /\ 0 <= t_j /\ t_j < shape[2]

\* What the body of "for row_offset, col_offset in nbrs" does with neighbour n of
\* the popped cell (i, j) of window w: "edge", "push" or "skip"; "unchecked" is a
\* read of fd outside the array, which the compiled kernel does not check.
nbr_case(w, i, j, n) ==
    LET row_offset == nbrs[n][1]
        col_offset == nbrs[n][2]
        t_i        == i + row_offset
        t_j        == j + col_offset
        shape      == <<w.height, w.width>>
    IN  IF out_of_bounds(t_i, t_j, shape) THEN "edge"
        ELSE IF ~in_array(t_i, t_j, shape) THEN "unchecked"
        ELSE IF ReadCell(w, t_i, t_j) <= 0 THEN "skip"
        ELSE IF ReadCell(w, t_i, t_j) = inverse_code(row_offset, col_offset) THEN "push"
        ELSE "skip"

\* the neighbours of one case, in the order of nbrs
nbrs_of(w, i, j, what) ==
    SelectSeq([n \in 1..Len(nbrs) |-> n], LAMBDA n : nbr_case(w, i, j, n) = what)

\* One iteration of "while len(list_stack) > 0". An edge is kept as the row
\* <<direction, t_i, t_j>> the orchestrator stacks from edge_directions and edges.
\* ub records an unchecked read: here the value read is taken not to match (the
\* other outcome is the action Raise).
pop_visit ==
    LET cell   == list_stack[Len(list_stack)]
        i      == cell[1]
        j      == cell[2]
        P      == nbrs_of(window, i, j, "push")
        E      == nbrs_of(window, i, j, "edge")
        pushed == [k \in 1..Len(P) |-> <<i + nbrs[P[k]][1], j + nbrs[P[k]][2]>>]
        met    == [k \in 1..Len(E) |->
                      <<inverse_code(nbrs[E[k]][1], nbrs[E[k]][2]),
                        i + nbrs[E[k]][1], j + nbrs[E[k]][2]>>]
    IN  [list_stack |-> SatExtend(SubSeq(list_stack, 1, Len(list_stack) - 1), pushed),
         basin      |-> SatExtend(basin, pushed),
         edges      |-> SatExtend(edges, met),
         ub         |-> nbrs_of(window, i, j, "unchecked") # <<>>]

(* ------------------- orchestrator: delineate.next_delin ----------------- *)

top_slice(e, shape) == e[2] < 0

bottom_slice(e, shape) == e[2] = shape[1]

left_slice(e, shape) == e[3] < 0

right_slice(e, shape) == e[3] = shape[2]

\* eight masks of which the four side masks keep the corners
bool_slice_with_corners(n, e, shape) ==
    LET t == top_slice(e, shape)
        b == bottom_slice(e, shape)
        l == left_slice(e, shape)
        r == right_slice(e, shape)
    IN  CASE n = 1 -> t
          [] n = 2 -> b
          [] n = 3 -> l
          [] n = 4 -> r
          [] n = 5 -> t /\ l
          [] n = 6 -> t /\ r
          [] n = 7 -> b /\ l
          [] n = 8 -> b /\ r

\* the n-th of the eight bool_slice masks, for the edge row e
bool_slice(n, e, shape) ==
    LET t == top_slice(e, shape)
        b == bottom_slice(e, shape)
        l == left_slice(e, shape)
        r == right_slice(e, shape)
    IN  CASE n = 1 -> t /\ ~l /\ ~r
          [] n = 2 -> b /\ ~l /\ ~r
          [] n = 3 -> l /\ ~t /\ ~b
          [] n = 4 -> r /\ ~t /\ ~b
          [] n = 5 -> t /\ l
          [] n = 6 -> t /\ r
          [] n = 7 -> b /\ l
          [] n = 8 -> b /\ r

NBuckets == 8

\* the dict stack, as the list of its items in insertion order
stack_has(stk, w) == \E k \in 1..Len(stk) : stk[k].window = w

stack_items(stk, w) ==
    IF stack_has(stk, w)
    THEN stk[CHOOSE k \in 1..Len(stk) : stk[k].window = w].items
    ELSE <<>>

stack_set(stk, w, items) ==
    IF stack_has(stk, w)
    THEN [k \in 1..Len(stk) |-> IF stk[k].window = w
                                 THEN [window |-> w, items |-> items] ELSE stk[k]]
    ELSE Append(stk, [window |-> w, items |-> items])

\* an update that makes no entry for a window when there is nothing to add
stack_extend_nonempty(stk, w, items) ==
    IF items = <<>> /\ ~stack_has(stk, w)
    THEN stk
    ELSE stack_set(stk, w, SatExtend(stack_items(stk, w), items))

\* stack[next_window] += items, or stack[next_window] = items on KeyError
stack_extend(stk, w, items) == stack_set(stk, w, SatExtend(stack_items(stk, w), items))

\* edges[bool_slice] for the n-th mask
edge_subset(n) ==
    SelectSeq(edges, LAMBDA e : bool_slice(n, e, <<window.height, window.width>>))

\* the first mask from n on with bool_slice.sum() > 0; 0 when there is none
next_bucket(n) ==
    IF \E m \in n..NBuckets : edge_subset(m) # <<>>
    THEN MinOf({m \in n..NBuckets : edge_subset(m) # <<>>})
    ELSE 0

\* the windows of stack with a non-empty list, by position in the dict
pending == {k \in 1..Len(stack) : stack[k].items # <<>>}

(* ------------------------------ delineate ------------------------------ *)

FlowSets == {S \in SUBSET Cells : Cardinality(S) <= MaxFlow}

BlockShapes == (1..NRows) \X (1..NCols)

\* the centre of global cell c, a query point
centre(c) == [x |-> left + c[2] * csx + csx \div 2, y |-> top - c[1] * csy - csy \div 2]

NoResult == [x |-> 0, y |-> 0]

\* the flow-direction raster: at most MaxFlow cells carry a code
InitFd ==
    \E S \in FlowSets : \E f \in [S -> 1..8] :
        fd = [c \in Cells |-> IF c \in S THEN f[c] ELSE 0]

\* the marked set of an earlier delineation; NoRun when there was none
NoRun == {<<-1, -1>>}

\* a transform that keeps the raster's corner as the mosaic's
buffer_cell(acc, p) == <<p[1], p[2]>>

\* WindowAccumulator.transform: the global raster cell of buffer position p
mosaic_cell(acc, p) ==
    <<(top - acc.top_accum) \div csy + p[1], (acc.left_accum - left) \div csx + p[2]>>

\* the global cells marked true in the coverage mosaic
Marked == {mosaic_cell(coverage, p) : p \in {q \in DOMAIN coverage.a : coverage.a[q]}}

\* delineate is called (snap = False) with a point of the raster
Init ==
    /\ ds = DefaultDs
    /\ streams_ds = ds
    /\ block_shape \in BlockShapes
    /\ \E c \in Cells : query = centre(c)
    /\ stream = {}
    /\ pc = "start"
    /\ window = NoWindow
    /\ ij = <<0, 0>>
    /\ found = FALSE
    /\ result = NoResult
    /\ stack = <<>>
    /\ list_stack = <<>>
    /\ basin = <<>>
    /\ edges = <<>>
    /\ bucket = 0
    /\ coverage = NoCoverage
    /\ marked_before = NoRun
    /\ tick = 0
    /\ avoid_offsets = <<>>
    /\ kernel_calls = {}
    /\ readers = NoReaders
    /\ InitFd

\* delineate up to the first call of delineate_task
Start ==
    /\ pc = "start"
    /\ \E iw  \in {intersecting_window(query.x, query.y)} :
       \E cov \in {from_raster(iw.window)} :
       \E rs  \in {open_readers({"fd"})} :
           IF ~raster_init(ds).ok
           THEN \* Raster(fd_src) raises ValueError
                /\ pc' = "not_tiled"
                /\ UNCHANGED <<window, stack, list_stack, coverage, readers>>
           ELSE IF ~iw.ok
           THEN \* fd.intersecting_window raises IndexError
                /\ pc' = "crashed"
                /\ readers' = exit_all(rs)
                /\ UNCHANGED <<window, stack, list_stack, coverage>>
           ELSE IF index_error(cov, iw.window, << <<iw.i, iw.j>> >>)
           THEN \* coverage[window][i, j] = True raises IndexError
                /\ pc' = "crashed"
                /\ window' = iw.window
                /\ stack' = <<[window |-> iw.window, items |-> << <<iw.i, iw.j>> >>]>>
                /\ coverage' = cov
                /\ readers' = exit_all(rs)
                /\ UNCHANGED list_stack
           ELSE /\ pc' = "kernel"
                /\ window' = iw.window
                /\ stack' = <<[window |-> iw.window, items |-> << <<iw.i, iw.j>> >>]>>
                /\ list_stack' = << <<iw.i, iw.j>> >>
                /\ coverage' = set_true(cov, iw.window, << <<iw.i, iw.j>> >>)
                /\ readers' = read_through(rs, {"fd"}, iw.window)
    /\ kernel_calls' = IF pc' = "kernel" THEN {window'} ELSE {}
    /\ UNCHANGED avoid_offsets
    /\ tick' = 1 - tick
    /\ UNCHANGED <<ds, streams_ds, fd, stream, block_shape, query, ij, found, result, basin, edges, bucket,
                   marked_before>>

\* a kernel that marks the popped cell as visited in its input array
KernelPopMarking ==
    /\ pc = "kernel"
    /\ list_stack # <<>>
    /\ \E st \in {pop_visit} :
           /\ list_stack' = st.list_stack
           /\ basin' = st.basin
           /\ edges' = st.edges
    /\ \E cell \in {list_stack[Len(list_stack)]} :
           fd' = [c \in DOMAIN fd |->
                     IF c = <<window.row_off + cell[1], window.col_off + cell[2]>>
                     THEN 0 ELSE fd[c]]
    /\ UNCHANGED kernel_calls
    /\ UNCHANGED avoid_offsets
    /\ tick' = 1 - tick
    /\ UNCHANGED <<ds, streams_ds, stream, block_shape, query, pc, window, ij, found, result,
                   stack, bucket, coverage, marked_before, readers>>

\* delineate_task: pop a cell and visit its eight neighbours
KernelPop ==
    /\ pc = "kernel"
    /\ list_stack # <<>>
    /\ \E st \in {pop_visit} :
           /\ list_stack' = st.list_stack
           /\ basin' = st.basin
           /\ edges' = st.edges
    /\ UNCHANGED kernel_calls
    /\ UNCHANGED avoid_offsets
    /\ tick' = 1 - tick
    /\ UNCHANGED <<ds, streams_ds, fd, stream, block_shape, query, pc, window, ij, found, result,
                   stack, bucket, coverage, marked_before, readers>>

\* The popped cell has a neighbour the kernel reads outside the array. When the
\* value read matches, the out-of-range cell joins the basin and
\* coverage[window][tuple(cov_idx.T)] = True raises IndexError.
Raise ==
    /\ pc = "kernel"
    /\ list_stack # <<>>
    /\ pop_visit.ub
    /\ pc' = "crashed"
    /\ UNCHANGED kernel_calls
    /\ UNCHANGED avoid_offsets
    /\ tick' = 1 - tick
    /\ UNCHANGED <<ds, streams_ds, fd, stream, block_shape, query, window, ij, found, result,
                   stack, list_stack, basin, edges, bucket, coverage, marked_before, readers>>

\* delineate_task returns: next_delin empties the window's stack, marks the
\* basin and sorts the edges under the eight masks
Return ==
    /\ pc = "kernel"
    /\ list_stack = <<>>
    /\ stack' = stack_set(stack, window, <<>>)
    /\ IF index_error(coverage, window, basin)
       THEN /\ pc' = "crashed"
            /\ UNCHANGED <<coverage, basin, edges, bucket>>
       ELSE /\ coverage' = set_true(coverage, window, basin)
            /\ basin' = <<>>
            /\ \E b \in {next_bucket(1)} :
                   /\ bucket' = b
                   /\ pc' = IF b = 0 THEN "pick" ELSE "hand_off"
                   /\ edges' = IF b = 0 THEN <<>> ELSE edges
    /\ UNCHANGED kernel_calls
    /\ UNCHANGED avoid_offsets
    /\ tick' = 1 - tick
    /\ UNCHANGED <<ds, streams_ds, fd, stream, block_shape, query, window, ij, found, result, list_stack,
                   marked_before, readers>>

\* One turn of "for bool_slice in (...)" with bool_slice.sum() > 0: the edges of
\* the mask are aligned with the window of the first of them, checked against
\* its flow directions, marked and stacked; then on to the next such mask.
HandOff ==
    /\ pc = "hand_off"
    /\ \E es \in {edge_subset(bucket)} :
       \E b  \in {next_bucket(bucket + 1)} :
       \E xy \in {xy_from_window_index(es[1][2], es[1][3], window)} :
       \E iw \in {intersecting_window(xy.x, xy.y)} :
       \E aligned \in {[k \in 1..Len(es) |->
                          <<es[k][1], es[k][2] + (iw.i - es[1][2]),
                            es[k][3] + (iw.j - es[1][3])>>]} :
           IF ~iw.ok
           THEN \* except IndexError: continue
                /\ bucket' = b
                /\ pc' = IF b = 0 THEN "pick" ELSE "hand_off"
                /\ edges' = IF b = 0 THEN <<>> ELSE edges
                /\ UNCHANGED <<stack, coverage, readers>>
           ELSE IF \E k \in 1..Len(aligned) :
                       \/ NumpyIndex(aligned[k][2], iw.window.height) = -1
                       \/ NumpyIndex(aligned[k][3], iw.window.width) = -1
           THEN \* fd[next_window][(rows, cols)] raises IndexError
                /\ pc' = "crashed"
                /\ readers' = exit_all(read_through(readers, {"fd"}, iw.window))
                /\ UNCHANGED <<stack, coverage, edges, bucket>>
           ELSE \E kept \in {SelectSeq(aligned, LAMBDA e :
                                ReadCell(iw.window, NumpyIndex(e[2], iw.window.height),
                                         NumpyIndex(e[3], iw.window.width)) = e[1])} :
                \E idx  \in {[k \in 1..Len(kept) |-> <<kept[k][2], kept[k][3]>>]} :
                \E cov1 \in {add_window(coverage, iw.window)} :
                    IF index_error(cov1, iw.window, idx)
                    THEN /\ pc' = "crashed"
                         /\ coverage' = cov1
                         /\ readers' = exit_all(read_through(readers, {"fd"}, iw.window))
                         /\ UNCHANGED <<stack, edges, bucket>>
                    ELSE /\ coverage' = set_true(cov1, iw.window, idx)
                         /\ readers' = read_through(readers, {"fd"}, iw.window)
                         /\ stack' = stack_extend(stack, iw.window, idx)
                         /\ bucket' = b
                         /\ pc' = IF b = 0 THEN "pick" ELSE "hand_off"
                         /\ edges' = IF b = 0 THEN <<>> ELSE edges
    /\ UNCHANGED kernel_calls
    /\ UNCHANGED avoid_offsets
    /\ tick' = 1 - tick
    /\ UNCHANGED <<ds, streams_ds, fd, stream, block_shape, query, window, ij, found, result, list_stack,
                   basin, marked_before>>

\* the main loop takes the first window with a non-empty stack, or ends
Pick ==
    /\ pc = "pick"
    /\ IF pending = {}
       THEN /\ pc' = "done"
            /\ readers' = exit_all(readers)
            /\ UNCHANGED <<window, list_stack>>
       ELSE /\ window' = stack[MinOf(pending)].window
            /\ list_stack' = stack[MinOf(pending)].items
            /\ readers' = read_through(readers, {"fd"}, stack[MinOf(pending)].window)
            /\ pc' = "kernel"
    /\ kernel_calls' = IF pc' = "kernel" THEN kernel_calls \cup {window'} ELSE kernel_calls
    /\ UNCHANGED avoid_offsets
    /\ tick' = 1 - tick
    /\ UNCHANGED <<ds, streams_ds, fd, stream, block_shape, query, ij, found, result, stack, basin, edges,
                   bucket, coverage, marked_before>>

Next == Start \/ KernelPop \/ Raise \/ Return \/ HandOff \/ Pick

Spec == Init /\ [][Next]_vars

\* delineate is between its call and its end: a step is due
Running ==
    /\ pc \in {"start", "kernel", "hand_off", "pick"}
    /\ tick' = 1 - tick

\* The interpreter is one thread that nothing pauses: while delineate is
\* running, its next step is taken.
FairSpec == Spec /\ WF_tick(Running)

(* ----------- the window order left open, and a second delineation ------- *)

\* a main loop that ends after the first window, whatever still waits
PickAnyEnd ==
    /\ pc = "pick"
    /\ pc' = "done"
    /\ readers' = exit_all(readers)
    /\ UNCHANGED <<window, list_stack>>
    /\ UNCHANGED kernel_calls
    /\ UNCHANGED avoid_offsets
    /\ tick' = 1 - tick
    /\ UNCHANGED <<ds, streams_ds, fd, stream, block_shape, query, ij, found, result, stack, basin, edges,
                   bucket, coverage, marked_before>>

\* the main loop with the choice of the next window left open
PickAny ==
    /\ pc = "pick"
    /\ IF pending = {}
       THEN /\ pc' = "done"
            /\ readers' = exit_all(readers)
            /\ UNCHANGED <<window, list_stack>>
       ELSE \E k \in pending :
            /\ window' = stack[k].window
            /\ readers' = read_through(readers, {"fd"}, stack[k].window)
            /\ list_stack' = stack[k].items
            /\ pc' = "kernel"
    /\ kernel_calls' = IF pc' = "kernel" THEN kernel_calls \cup {window'} ELSE kernel_calls
    /\ UNCHANGED avoid_offsets
    /\ tick' = 1 - tick
    /\ UNCHANGED <<ds, streams_ds, fd, stream, block_shape, query, ij, found, result, stack, basin, edges,
                   bucket, coverage, marked_before>>

\* the same grid is stored with another block size and delineate is called
\* again for the same point
Retile ==
    /\ pc = "done"
    /\ marked_before = NoRun
    /\ marked_before' = Marked
    /\ \E bs \in BlockShapes \ {block_shape} : block_shape' = bs
    /\ pc' = "start"
    /\ window' = NoWindow
    /\ stack' = <<>>
    /\ coverage' = NoCoverage
    /\ readers' = NoReaders
    /\ kernel_calls' = {}
    /\ UNCHANGED avoid_offsets
    /\ tick' = 1 - tick
    /\ UNCHANGED <<ds, streams_ds, fd, stream, query, ij, found, result, list_stack, basin, edges, bucket>>

\* rasters of up to MaxFlowOrder cells with a cardinal code: enough cells for
\* two windows to wait at once while one of them still has cells upstream
OrderFlowSets == {S \in SUBSET Cells : Cardinality(S) <= MaxFlowOrder}

OrderCodes == {2, 4, 6, 8}

InitAnyOrder ==
    /\ ds = DefaultDs
    /\ streams_ds = ds
    /\ block_shape \in BlockShapes
    /\ \E c \in Cells : query = centre(c)
    /\ stream = {}
    /\ pc = "start"
    /\ window = NoWindow
    /\ ij = <<0, 0>>
    /\ found = FALSE
    /\ result = NoResult
    /\ stack = <<>>
    /\ list_stack = <<>>
    /\ basin = <<>>
    /\ edges = <<>>
    /\ bucket = 0
    /\ coverage = NoCoverage
    /\ marked_before = NoRun
    /\ tick = 0
    /\ avoid_offsets = <<>>
    /\ kernel_calls = {}
    /\ readers = NoReaders
    /\ \E S \in OrderFlowSets : \E f \in [S -> OrderCodes] :
           fd = [c \in Cells |-> IF c \in S THEN f[c] ELSE 0]

NextAnyOrder == Start \/ KernelPop \/ Raise \/ Return \/ HandOff \/ PickAny

SpecAnyOrder == InitAnyOrder /\ [][NextAnyOrder]_vars

NextRetile == Start \/ KernelPop \/ Raise \/ Return \/ HandOff \/ Pick \/ Retile

SpecRetile == Init /\ [][NextRetile]_vars

(* ------------- delineate with a stream raster of another grid ---------- *)

\* the bounds of a dataset: left, bottom, right, top
ds_bounds(d) ==
    <<d.left, d.top - d.height * d.csy, d.left + d.width * d.csx, d.top>>

\* Raster.matches
matches(a, b) ==
    /\ ds_bounds(a) = ds_bounds(b)
    /\ a.crs = b.crs
    /\ a.height = b.height
    /\ a.width = b.width

\* stream rasters that differ from the flow-direction raster: one column
\* more, one row more with the same bounds, a shifted corner, another CRS
OtherDs ==
    {[DefaultDs EXCEPT !.width = NCols + 1],
     [DefaultDs EXCEPT !.height = 2 * NRows, !.csy = 2],
     [DefaultDs EXCEPT !.left = DefaultDs.left + 2],
     [DefaultDs EXCEPT !.crs = "wgs84"]}

\* delineate is called (snap = False) with a stream raster that does not match
InitMismatch ==
    /\ ds = DefaultDs
    /\ streams_ds \in OtherDs
    /\ block_shape \in BlockShapes
    /\ \E c \in Cells : query = centre(c)
    /\ stream = {}
    /\ pc = "start"
    /\ window = NoWindow
    /\ ij = <<0, 0>>
    /\ found = FALSE
    /\ result = NoResult
    /\ stack = <<>>
    /\ list_stack = <<>>
    /\ basin = <<>>
    /\ edges = <<>>
    /\ bucket = 0
    /\ coverage = NoCoverage
    /\ marked_before = NoRun
    /\ tick = 0
    /\ avoid_offsets = <<>>
    /\ kernel_calls = {}
    /\ readers = NoReaders
    /\ \E S \in {T \in SUBSET Cells : Cardinality(T) <= MaxFlowMismatch} :
       \E f \in [S -> 1..8] :
           fd = [c \in Cells |-> IF c \in S THEN f[c] ELSE 0]

SpecMismatch == InitMismatch /\ [][Next]_vars

(* ------------ delineate for any point of the raster's extent ----------- *)

\* the points of the raster's extent on the half-cell grid: cell centres,
\* points on the lines between cells and on the raster's border
ExtentPoints ==
    {[x |-> left + a * (csx \div 2), y |-> top - b * (csy \div 2)] :
        a \in 0..(2 * ds.width), b \in 0..(2 * ds.height)}

\* delineate is called (snap = False) with any point of the raster's extent
InitSeam ==
    /\ ds = DefaultDs
    /\ streams_ds = ds
    /\ block_shape \in BlockShapes
    /\ query \in ExtentPoints
    /\ stream = {}
    /\ pc = "start"
    /\ window = NoWindow
    /\ ij = <<0, 0>>
    /\ found = FALSE
    /\ result = NoResult
    /\ stack = <<>>
    /\ list_stack = <<>>
    /\ basin = <<>>
    /\ edges = <<>>
    /\ bucket = 0
    /\ coverage = NoCoverage
    /\ marked_before = NoRun
    /\ tick = 0
    /\ avoid_offsets = <<>>
    /\ kernel_calls = {}
    /\ readers = NoReaders
    /\ \E S \in {T \in SUBSET Cells : Cardinality(T) <= MaxFlowSeam} :
       \E f \in [S -> 1..8] :
           fd = [c \in Cells |-> IF c \in S THEN f[c] ELSE 0]

SpecSeam == InitSeam /\ [][Next]_vars

(* ------------- delineate on a tiled or a stripped source --------------- *)

\* delineate is called (snap = False) on a raster file that is tiled, with any
\* block shape, or stripped, with blocks as wide as the raster
InitOpen ==
    /\ ds \in {DefaultDs, [DefaultDs EXCEPT !.is_tiled = FALSE]}
    /\ streams_ds = ds
    /\ block_shape \in {bs \in BlockShapes : ds.is_tiled \/ bs[2] = NCols}
    /\ \E c \in Cells : query = centre(c)
    /\ stream = {}
    /\ pc = "start"
    /\ window = NoWindow
    /\ ij = <<0, 0>>
    /\ found = FALSE
    /\ result = NoResult
    /\ stack = <<>>
    /\ list_stack = <<>>
    /\ basin = <<>>
    /\ edges = <<>>
    /\ bucket = 0
    /\ coverage = NoCoverage
    /\ marked_before = NoRun
    /\ tick = 0
    /\ avoid_offsets = <<>>
    /\ kernel_calls = {}
    /\ readers = NoReaders
    /\ \E S \in {T \in SUBSET Cells : Cardinality(T) <= MaxFlowMismatch} :
       \E f \in [S -> 1..8] :
           fd = [c \in Cells |-> IF c \in S THEN f[c] ELSE 0]

SpecOpen == InitOpen /\ [][Next]_vars

(* ------------- locating an index of one window in the raster ----------- *)

\* a window of the raster and an index on or relative to it
InitLocate ==
    /\ ds = DefaultDs
    /\ streams_ds = ds
    /\ block_shape \in BlockShapes
    /\ window \in AllWindows
    /\ ij \in ((-LocateReach)..(NRows - 1 + LocateReach))
              \X ((-LocateReach)..(NCols - 1 + LocateReach))
    /\ query = NoResult
    /\ stream = {}
    /\ pc = "locate"
    /\ found = FALSE
    /\ result = NoResult
    /\ stack = <<>>
    /\ list_stack = <<>>
    /\ basin = <<>>
    /\ edges = <<>>
    /\ bucket = 0
    /\ coverage = NoCoverage
    /\ marked_before = NoRun
    /\ tick = 0
    /\ avoid_offsets = <<>>
    /\ kernel_calls = {}
    /\ readers = NoReaders
    /\ fd = [c \in Cells |-> 0]

\* x, y = xy_from_window_index(i, j, window), then intersecting_window(x, y):
\* the world point is kept in result, the window and index found in stack
Locate ==
    /\ pc = "locate"
    /\ \E xy \in {xy_from_window_index(ij[1], ij[2], window)} :
       \E iw \in {intersecting_window(xy.x, xy.y)} :
           /\ result' = xy
           /\ IF iw.ok
              THEN /\ stack' = <<[window |-> iw.window, items |-> << <<iw.i, iw.j>> >>]>>
                   /\ pc' = "located"
              ELSE /\ stack' = stack
                   /\ pc' = "off_raster"
    /\ UNCHANGED kernel_calls
    /\ UNCHANGED avoid_offsets
    /\ tick' = 1 - tick
    /\ UNCHANGED <<ds, streams_ds, fd, stream, block_shape, query, window, ij, found,
                   list_stack, basin, edges, bucket, coverage, marked_before, readers>>

NextLocate == Locate

SpecLocate == InitLocate /\ [][NextLocate]_vars

(* ----------------- downstream tracer and snapper: find_stream ----------- *)

find_stream_directions ==
    << <<0, 0>>, <<-1, 1>>, <<-1, 0>>, <<-1, -1>>, <<0, -1>>, <<1, -1>>, <<1, 0>>, <<1, 1>>, <<0, 1>> >>

\* directions[code], the downstream neighbour offset of a D8 code
offset(code) == find_stream_directions[code + 1]

\* streams[window] != streams.nodata, at an index inside the window
StreamCell(w, i, j) == <<w.row_off + i, w.col_off + j>> \in stream

StreamSets == {S \in SUBSET Cells : Cardinality(S) <= MaxStream}

\* find_stream is called with a point of the raster
InitSnap ==
    /\ ds = DefaultDs
    /\ streams_ds = ds
    /\ block_shape \in BlockShapes
    /\ \E c \in Cells : query = centre(c)
    /\ stream \in StreamSets
    /\ pc = "snap_start"
    /\ window = NoWindow
    /\ ij = <<0, 0>>
    /\ found = FALSE
    /\ result = NoResult
    /\ stack = <<>>
    /\ list_stack = <<>>
    /\ basin = <<>>
    /\ edges = <<>>
    /\ bucket = 0
    /\ coverage = NoCoverage
    /\ marked_before = NoRun
    /\ tick = 0
    /\ avoid_offsets = <<>>
    /\ kernel_calls = {}
    /\ readers = NoReaders
    /\ InitFd

\* find_stream without the test of the start cell's fd value
SnapStartUnchecked ==
    /\ pc = "snap_start"
    /\ \E iw \in {intersecting_window(query.x, query.y)} :
           /\ iw.ok
           /\ window' = iw.window
           /\ ij' = <<iw.i, iw.j>>
           /\ pc' = "trace"
           /\ \E rs \in {read_through(open_readers({"streams", "fd", "fa"}),
                                       {"streams", "fd"}, iw.window)} :
                  readers' = IF pc' = "out_of_bounds" THEN exit_all(rs) ELSE rs
    /\ UNCHANGED kernel_calls
    /\ UNCHANGED avoid_offsets
    /\ tick' = 1 - tick
    /\ UNCHANGED <<ds, streams_ds, fd, stream, block_shape, query, found, result,
                   stack, list_stack, basin, edges, bucket, coverage, marked_before>>

\* find_stream up to the first call of find_stream_task
SnapStart ==
    /\ pc = "snap_start"
    /\ IF ~(raster_init(streams_ds).ok /\ raster_init(ds).ok)
       THEN \* Raster(stream_src) or Raster(fd_src) raises ValueError
            /\ pc' = "not_tiled"
            /\ UNCHANGED <<window, ij, readers>>
       ELSE \E iw \in {intersecting_window(query.x, query.y)} :
                /\ iw.ok
                /\ window' = iw.window
                /\ ij' = <<iw.i, iw.j>>
                /\ pc' = IF ReadCell(iw.window, iw.i, iw.j) <= 0
                         THEN "out_of_bounds" ELSE "trace"
                /\ \E rs \in {read_through(open_readers({"streams", "fd", "fa"}),
                                            {"streams", "fd"}, iw.window)} :
                       readers' = IF pc' = "out_of_bounds" THEN exit_all(rs) ELSE rs
    /\ UNCHANGED kernel_calls
    /\ UNCHANGED avoid_offsets
    /\ tick' = 1 - tick
    /\ UNCHANGED <<ds, streams_ds, fd, stream, block_shape, query, found, result,
                   stack, list_stack, basin, edges, bucket, coverage, marked_before>>

\* one iteration with the two tests exchanged: fd[i, j] <= 0 before stream[i, j]
TraceStepFdFirst ==
    /\ pc = "trace"
    /\ LET i == ij[1]
           j == ij[2]
       IN  IF ReadCell(window, i, j) <= 0
           THEN /\ pc' = "returned"
                /\ UNCHANGED <<found, ij>>
           ELSE IF StreamCell(window, i, j)
           THEN /\ found' = TRUE
                /\ pc' = "returned"
                /\ ij' = ij
           ELSE LET i_offset == offset(ReadCell(window, i, j))[1]
                    j_offset == offset(ReadCell(window, i, j))[2]
                    i1       == i + i_offset
                    j1       == j + j_offset
                IN  /\ ij' = <<i1, j1>>
                    /\ found' = found
                    /\ pc' = IF i1 < 0 \/ i1 >= window.height \/ j1 < 0 \/ j1 >= window.width
                             THEN "returned" ELSE "trace"
    /\ UNCHANGED kernel_calls
    /\ UNCHANGED avoid_offsets
    /\ tick' = 1 - tick
    /\ UNCHANGED <<ds, streams_ds, fd, stream, block_shape, query, window, result,
                   stack, list_stack, basin, edges, bucket, coverage, marked_before, readers>>

\* find_stream_task: one iteration of "while True"
TraceStep ==
    /\ pc = "trace"
    /\ LET i == ij[1]
           j == ij[2]
       IN  IF StreamCell(window, i, j)
           THEN /\ found' = TRUE
                /\ pc' = "returned"
                /\ ij' = ij
           ELSE IF ReadCell(window, i, j) <= 0
           THEN /\ pc' = "returned"
                /\ UNCHANGED <<found, ij>>
           ELSE LET i_offset == offset(ReadCell(window, i, j))[1]
                    j_offset == offset(ReadCell(window, i, j))[2]
                    i1       == i + i_offset
                    j1       == j + j_offset
                IN  /\ ij' = <<i1, j1>>
                    /\ found' = found
                    /\ pc' = IF i1 < 0 \/ i1 >= window.height \/ j1 < 0 \/ j1 >= window.width
                             THEN "returned" ELSE "trace"
    /\ UNCHANGED kernel_calls
    /\ UNCHANGED avoid_offsets
    /\ tick' = 1 - tick
    /\ UNCHANGED <<ds, streams_ds, fd, stream, block_shape, query, window, result,
                   stack, list_stack, basin, edges, bucket, coverage, marked_before, readers>>

\* find_stream after find_stream_task has returned (found, i, j)
SnapReturn ==
    /\ pc = "returned"
    /\ IF found
       THEN /\ result' = xy_from_window_index(ij[1], ij[2], window)
            /\ pc' = "snapped"
            /\ readers' = exit_all(read_through(readers, {"fa"}, window))
            /\ UNCHANGED <<window, ij>>
       ELSE \E xy \in {xy_from_window_index(ij[1], ij[2], window)} :
            \E iw \in {intersecting_window(xy.x, xy.y)} :
                IF iw.ok
                THEN /\ window' = iw.window
                     /\ ij' = <<iw.i, iw.j>>
                     /\ pc' = "trace"
                     /\ result' = result
                     /\ readers' = read_through(readers, {"streams", "fd"}, iw.window)
                ELSE /\ pc' = "no_stream"
                     /\ readers' = exit_all(readers)
                     /\ UNCHANGED <<window, ij, result>>
    /\ UNCHANGED kernel_calls
    /\ UNCHANGED avoid_offsets
    /\ tick' = 1 - tick
    /\ UNCHANGED <<ds, streams_ds, fd, stream, block_shape, query, found,
                   stack, list_stack, basin, edges, bucket, coverage, marked_before>>

NextSnap == SnapStart \/ TraceStep \/ SnapReturn

SpecSnap == InitSnap /\ [][NextSnap]_vars

\* find_stream is between its call and its end: a step is due
Snapping ==
    /\ pc \in {"snap_start", "trace", "returned"}
    /\ tick' = 1 - tick

\* while find_stream is running, its next step is taken
FairSnap == SpecSnap /\ WF_tick(Snapping)

(* ------------------- delineate with snap = True ------------------------ *)

\* delineate(snap=True): find_stream has returned (x, y, _), and delineate
\* goes on from the snapped point
SnapDone ==
    /\ pc = "snapped"
    /\ query' = result
    /\ pc' = "start"
    /\ UNCHANGED kernel_calls
    /\ UNCHANGED avoid_offsets
    /\ tick' = 1 - tick
    /\ UNCHANGED <<ds, streams_ds, fd, stream, block_shape, window, ij, found, result,
                   stack, list_stack, basin, edges, bucket, coverage, marked_before, readers>>

NextSnapDelineate ==
    \/ SnapStart \/ TraceStep \/ SnapReturn \/ SnapDone
    \/ Start \/ KernelPop \/ Raise \/ Return \/ HandOff \/ Pick

\* delineate called with snap = True: find_stream, then the delineation
SpecSnapDelineate == InitSnap /\ [][NextSnapDelineate]_vars

(* ------------- the kernel with avoid_offsets: delineate_task ------------ *)

\* the most rows avoid_offsets has when the kernel is called
MaxAvoid == 1

\* the most cells that carry a flow code in the array given to the kernel
MaxFlowAvoid == 1

\* the most cells in the stack the kernel is called with
MaxSeeds == 2

\* "for avoid_row_offset, avoid_col_offset in avoid_offsets": skip_offset
skip_offset(row_offset, col_offset, av) ==
    \E k \in 1..Len(av) : row_offset = av[k][1] /\ col_offset = av[k][2]

\* the body of "for row_offset, col_offset in nbrs" for neighbour n: "avoid"
\* when the offset is skipped, the case of nbr_case otherwise
nbr_case_avoiding(w, i, j, n, av) ==
    IF skip_offset(nbrs[n][1], nbrs[n][2], av) THEN "avoid" ELSE nbr_case(w, i, j, n)

nbrs_avoiding(w, i, j, what, av) ==
    SelectSeq([n \in 1..Len(nbrs) |-> n], LAMBDA n : nbr_case_avoiding(w, i, j, n, av) = what)

\* an iteration that leaves avoid_offsets as it was given
pop_visit_keeping ==
    LET cell   == list_stack[Len(list_stack)]
        i      == cell[1]
        j      == cell[2]
        P      == nbrs_avoiding(window, i, j, "push", avoid_offsets)
        E      == nbrs_avoiding(window, i, j, "edge", avoid_offsets)
        pushed == [k \in 1..Len(P) |-> <<i + nbrs[P[k]][1], j + nbrs[P[k]][2]>>]
        met    == [k \in 1..Len(E) |->
                      <<inverse_code(nbrs[E[k]][1], nbrs[E[k]][2]),
                        i + nbrs[E[k]][1], j + nbrs[E[k]][2]>>]
    IN  [list_stack    |-> SatExtend(SubSeq(list_stack, 1, Len(list_stack) - 1), pushed),
         basin         |-> SatExtend(basin, pushed),
         edges         |-> SatExtend(edges, met),
         avoid_offsets |-> avoid_offsets,
         ub            |-> nbrs_avoiding(window, i, j, "unchecked", avoid_offsets) # <<>>]

\* One iteration of "while len(list_stack) > 0" of the three-argument kernel,
\* ending with avoid_offsets = np.array([[0, 0]]). ub as in pop_visit.
pop_visit_avoiding ==
    LET cell   == list_stack[Len(list_stack)]
        i      == cell[1]
        j      == cell[2]
        P      == nbrs_avoiding(window, i, j, "push", avoid_offsets)
        E      == nbrs_avoiding(window, i, j, "edge", avoid_offsets)
        pushed == [k \in 1..Len(P) |-> <<i + nbrs[P[k]][1], j + nbrs[P[k]][2]>>]
        met    == [k \in 1..Len(E) |->
                      <<inverse_code(nbrs[E[k]][1], nbrs[E[k]][2]),
                        i + nbrs[E[k]][1], j + nbrs[E[k]][2]>>]
    IN  [list_stack    |-> SatExtend(SubSeq(list_stack, 1, Len(list_stack) - 1), pushed),
         basin         |-> SatExtend(basin, pushed),
         edges         |-> SatExtend(edges, met),
         avoid_offsets |-> << <<0, 0>> >>,
         ub            |-> nbrs_avoiding(window, i, j, "unchecked", avoid_offsets) # <<>>]

\* the arrays avoid_offsets can be: up to MaxAvoid of the eight neighbour
\* offsets, in the order of nbrs
AvoidSets ==
    {SelectSeq(nbrs, LAMBDA o : o \in S) : S \in {T \in SUBSET {nbrs[n] : n \in 1..Len(nbrs)} :
                                                     Cardinality(T) <= MaxAvoid}}

\* the stacks the kernel can be called with: cells of the array
SeedStacks(w) ==
    LET inside == (0..(w.height - 1)) \X (0..(w.width - 1))
    IN  UNION {[1..n -> inside] : n \in 1..MaxSeeds}

\* delineate_task(fd, stack, avoid_offsets) is called on a window of the raster
InitAvoid ==
    /\ ds = DefaultDs
    /\ streams_ds = ds
    /\ block_shape \in BlockShapes
    /\ window \in AllWindows
    /\ list_stack \in SeedStacks(window)
    /\ stack = <<[window |-> window, items |-> list_stack]>>
    /\ avoid_offsets \in AvoidSets
    /\ \E S \in {T \in SUBSET Cells : Cardinality(T) <= MaxFlowAvoid} : \E f \in [S -> 1..8] :
           fd = [c \in Cells |-> IF c \in S THEN f[c] ELSE 0]
    /\ pc = "kernel"
    /\ stream = {}
    /\ query = NoResult
    /\ ij = <<0, 0>>
    /\ found = FALSE
    /\ result = NoResult
    /\ basin = <<>>
    /\ edges = <<>>
    /\ bucket = 0
    /\ coverage = NoCoverage
    /\ marked_before = NoRun
    /\ tick = 0
    /\ kernel_calls = {window}
    /\ readers = NoReaders

\* delineate_task with avoid_offsets: pop a cell and visit its neighbours
KernelPopAvoiding ==
    /\ pc = "kernel"
    /\ list_stack # <<>>
    /\ \E st \in {pop_visit_avoiding} :
           /\ list_stack' = st.list_stack
           /\ basin' = st.basin
           /\ edges' = st.edges
           /\ avoid_offsets' = st.avoid_offsets
    /\ UNCHANGED kernel_calls
    /\ tick' = 1 - tick
    /\ UNCHANGED <<ds, streams_ds, fd, stream, block_shape, query, pc, window, ij, found, result,
                   stack, bucket, coverage, marked_before, readers>>

\* The popped cell has a neighbour the kernel reads outside the array and the
\* value read matches: the kernel goes on from a cell that is not in the array.
StrayAvoiding ==
    /\ pc = "kernel"
    /\ list_stack # <<>>
    /\ pop_visit_avoiding.ub
    /\ pc' = "crashed"
    /\ UNCHANGED kernel_calls
    /\ UNCHANGED avoid_offsets
    /\ tick' = 1 - tick
    /\ UNCHANGED <<ds, streams_ds, fd, stream, block_shape, query, window, ij, found, result,
                   stack, list_stack, basin, edges, bucket, coverage, marked_before, readers>>

\* the stack is empty: the kernel returns basin, edges and edge_directions
ReturnAvoiding ==
    /\ pc = "kernel"
    /\ list_stack = <<>>
    /\ pc' = "done"
    /\ UNCHANGED kernel_calls
    /\ UNCHANGED avoid_offsets
    /\ tick' = 1 - tick
    /\ UNCHANGED <<ds, streams_ds, fd, stream, block_shape, query, window, ij, found, result,
                   stack, list_stack, basin, edges, bucket, coverage, marked_before, readers>>

NextAvoid == KernelPopAvoiding \/ StrayAvoiding \/ ReturnAvoiding

SpecAvoid == InitAvoid /\ [][NextAvoid]_vars

(* --------------------- find_stream on two given grids ------------------- *)

\* Grids of cell size 1 with the upper left corner at (0, 0). Coordinates are
\* counted in half cells, so that the cell size is 2 and a cell centre such as
\* (2.5, -0.5) is the integer point (5, -1).
GridDs(n) ==
    [height |-> n, width |-> n, csx |-> 2, csy |-> 2, top |-> 0, left |-> 0, crs |-> "utm",
     is_tiled |-> TRUE]

\* 3 x 3, fd all 0, the only stream cell at (1, 1), query (1.5, -1.5)
SingleCell ==
    [ds     |-> GridDs(3),
     fd     |-> [c \in (0..2) \X (0..2) |-> 0],
     stream |-> {<<1, 1>>},
     query  |-> [x |-> 3, y |-> -3]]

\* 5 x 5, column 2 flows north (2), the cells left of it east (8), the cells
\* right of it west (4), the only stream cell at (0, 2), query the centre of (4, 2)
LinearSpine ==
    [ds     |-> GridDs(5),
     fd     |-> [c \in (0..4) \X (0..4) |->
                    IF c[2] = 2 THEN 2 ELSE IF c[2] < 2 THEN 8 ELSE 4],
     stream |-> {<<0, 2>>},
     query  |-> [x |-> 5, y |-> -9]]

\* find_stream is called on one of the two grids, stored with any block shape
InitGrid ==
    /\ \E g \in {SingleCell, LinearSpine} :
           /\ ds = g.ds
           /\ fd = g.fd
           /\ stream = g.stream
           /\ query = g.query
    /\ streams_ds = ds
    /\ block_shape \in (1..ds.height) \X (1..ds.width)
    /\ pc = "snap_start"
    /\ window = NoWindow
    /\ ij = <<0, 0>>
    /\ found = FALSE
    /\ result = NoResult
    /\ stack = <<>>
    /\ list_stack = <<>>
    /\ basin = <<>>
    /\ edges = <<>>
    /\ bucket = 0
    /\ coverage = NoCoverage
    /\ marked_before = NoRun
    /\ tick = 0
    /\ avoid_offsets = <<>>
    /\ kernel_calls = {}
    /\ readers = NoReaders

SpecGrid == InitGrid /\ [][NextSnap]_vars

\* while find_stream is running, its next step is taken
FairGrid == SpecGrid /\ WF_tick(Snapping)

(* ------------------------ Raster under any caller ---------------------- *)

\* one Raster has been opened on the raster file, stored with any block shape
InitReads ==
    /\ ds = DefaultDs
    /\ streams_ds = ds
    /\ block_shape \in BlockShapes
    /\ fd = [c \in Cells |-> 0]
    /\ query = NoResult
    /\ stream = {}
    /\ pc = "reading"
    /\ window = NoWindow
    /\ ij = <<0, 0>>
    /\ found = FALSE
    /\ result = NoResult
    /\ stack = <<>>
    /\ list_stack = <<>>
    /\ basin = <<>>
    /\ edges = <<>>
    /\ bucket = 0
    /\ coverage = NoCoverage
    /\ marked_before = NoRun
    /\ tick = 0
    /\ avoid_offsets = <<>>
    /\ kernel_calls = {}
    /\ readers = open_readers({"fd"})

\* fd[w] for any block window w; window keeps the window asked for
ReadWindow ==
    /\ pc = "reading"
    /\ \E w \in AllWindows :
           /\ window' = w
           /\ readers' = read_through(readers, {"fd"}, w)
    /\ UNCHANGED kernel_calls
    /\ UNCHANGED avoid_offsets
    /\ tick' = 1 - tick
    /\ UNCHANGED <<ds, streams_ds, fd, stream, block_shape, query, pc, ij, found, result,
                   stack, list_stack, basin, edges, bucket, coverage, marked_before>>

NextReads == ReadWindow

SpecReads == InitReads /\ [][NextReads]_vars

(* ------------------ WindowAccumulator under any caller ------------------ *)

\* a mosaic created from any block of the raster
InitAccum ==
    /\ ds = DefaultDs
    /\ streams_ds = ds
    /\ block_shape \in BlockShapes
    /\ \E k \in 1..n_blocks : coverage = from_raster(block_window(k))
    /\ pc = "accum"
    /\ fd = [c \in Cells |-> 0]
    /\ stream = {}
    /\ query = NoResult
    /\ window = NoWindow
    /\ ij = <<0, 0>>
    /\ found = FALSE
    /\ result = NoResult
    /\ stack = <<>>
    /\ list_stack = <<>>
    /\ basin = <<>>
    /\ edges = <<>>
    /\ bucket = 0
    /\ marked_before = NoRun
    /\ tick = 0
    /\ avoid_offsets = <<>>
    /\ kernel_calls = {}
    /\ readers = NoReaders

\* coverage.add_window(w)
AddWindow ==
    /\ pc = "accum"
    /\ \E k \in 1..n_blocks : coverage' = add_window(coverage, block_window(k))
    /\ UNCHANGED kernel_calls
    /\ UNCHANGED avoid_offsets
    /\ tick' = 1 - tick
    /\ UNCHANGED <<ds, streams_ds, fd, stream, block_shape, query, pc, window, ij, found, result,
                   stack, list_stack, basin, edges, bucket, marked_before, readers>>

\* coverage[w][i, j] = True
SetCell ==
    /\ pc = "accum"
    /\ \E w \in DOMAIN coverage.windows :
       \E i \in 0..(w.height - 1) : \E j \in 0..(w.width - 1) :
           coverage' = set_true(coverage, w, << <<i, j>> >>)
    /\ UNCHANGED kernel_calls
    /\ UNCHANGED avoid_offsets
    /\ tick' = 1 - tick
    /\ UNCHANGED <<ds, streams_ds, fd, stream, block_shape, query, pc, window, ij, found, result,
                   stack, list_stack, basin, edges, bucket, marked_before, readers>>

NextAccum == AddWindow \/ SetCell

SpecAccum == InitAccum /\ [][NextAccum]_vars

(* ------------------------- D8 reference notions ------------------------- *)

\* Raster.coord_to_idx for a point of the raster
coord_to_idx(x, y) == <<(top - y) \div csy, (x - left) \div csx>>

\* the global cell of the query point
seed == coord_to_idx(query.x, query.y)

\* the cell a coded cell flows to
downstream(c) == <<c[1] + offset(fd[c])[1], c[2] + offset(fd[c])[2]>>

\* the raster cells whose code sends them into a cell of S
FlowsInto(S) == {c \in Cells : fd[c] > 0 /\ downstream(c) \in S}

\* S and every raster cell with a D8 path into S
RECURSIVE UpstreamOf(_)
UpstreamOf(S) == IF FlowsInto(S) \subseteq S THEN S ELSE UpstreamOf(S \cup FlowsInto(S))

\* the window and index intersecting_window gives the centre of global cell c
located(c) == intersecting_window(centre(c).x, centre(c).y)

\* The global cells next_delin marks because cell (i, j) of window w is popped,
\* whatever else the same kernel call pops: the neighbours pushed inside the
\* window, and the edges that fall in a bucket and pass the check against the
\* next window.
marks_of_pop(w, i, j) ==
    LET shape     == <<w.height, w.width>>
        t(n)      == <<i + nbrs[n][1], j + nbrs[n][2]>>
        d(n)      == inverse_code(nbrs[n][1], nbrs[n][2])
        next(n)   == LET xy == xy_from_window_index(t(n)[1], t(n)[2], w)
                     IN  intersecting_window(xy.x, xy.y)
        pushed    == {n \in 1..Len(nbrs) : nbr_case(w, i, j, n) = "push"}
        handed    == {n \in 1..Len(nbrs) :
                         /\ nbr_case(w, i, j, n) = "edge"
                         /\ \E b \in 1..NBuckets : bool_slice(b, <<d(n), t(n)[1], t(n)[2]>>, shape)
                         /\ next(n).ok
                         /\ ReadCell(next(n).window, next(n).i, next(n).j) = d(n)}
    IN  {<<w.row_off + t(n)[1], w.col_off + t(n)[2]>> : n \in pushed}
        \cup {<<next(n).window.row_off + next(n).i, next(n).window.col_off + next(n).j>> :
                 n \in handed}

marks_of(c) == marks_of_pop(located(c).window, located(c).i, located(c).j)

\* M is what grows from S by marking, for every cell, what its pop marks
RECURSIVE GrowsTo(_, _)
GrowsTo(S, M) ==
    \E T \in {S \cup UNION {marks_of(c) : c \in S}} :
        IF T = S THEN M = S ELSE GrowsTo(T, M)

\* no global cell
NoCell == <<-1, -1>>

\* the first stream cell on the D8 path from global cell c within n moves;
\* NoCell when the path leaves the raster or stops before one
RECURSIVE FirstStream(_, _)
FirstStream(c, n) ==
    IF c \notin Cells THEN NoCell
    ELSE IF c \in stream THEN c
    ELSE IF fd[c] <= 0 \/ n = 0 THEN NoCell
    ELSE FirstStream(downstream(c), n - 1)

\* the D8 path from c comes to the cell target within n moves
RECURSIVE ReachesIn(_, _, _)
ReachesIn(c, target, n) ==
    /\ c \in Cells
    /\ \/ c = target
       \/ n > 0 /\ fd[c] > 0 /\ ReachesIn(downstream(c), target, n - 1)

\* the D8 path from index c of window w comes to one of the indices in seeds
\* within n moves, all of them inside the window
RECURSIVE ReachesSeedIn(_, _, _, _)
ReachesSeedIn(w, c, seeds, n) ==
    /\ in_array(c[1], c[2], <<w.height, w.width>>)
    /\ \/ c \in seeds
       \/ /\ n > 0
          /\ ReadCell(w, c[1], c[2]) > 0
          /\ ReachesSeedIn(w, <<c[1] + offset(ReadCell(w, c[1], c[2]))[1],
                                c[2] + offset(ReadCell(w, c[1], c[2]))[2]>>, seeds, n - 1)

\* the indices of window w, other than the seeds, with fd > 0 whose D8 path
\* reaches a seed without leaving the window
UpstreamInWindow(w, seeds) ==
    {c \in (0..(w.height - 1)) \X (0..(w.width - 1)) :
        /\ c \notin seeds
        /\ ReadCell(w, c[1], c[2]) > 0
        /\ ReachesSeedIn(w, c, seeds, w.height * w.width)}

\* no cell of the raster lies on a D8 cycle
Acyclic ==
    \A c \in Cells : fd[c] > 0 => ~ReachesIn(downstream(c), c, NRows * NCols)

(* --------------------------- claims: delineate -------------------------- *)

\* C1: at every moment of a delineation, and so when it has terminated, every
\* cell marked in the mosaic is the seed cell or has a downstream D8 path that
\* reaches the seed cell: no cell outside the seed's upstream set is ever marked.
C1_MarkedFlowToSeed == Marked \subseteq UpstreamOf({seed})

\* a delineation has ended with three marked cells spread over several windows
C1_Witness ==
    /\ pc = "done"
    /\ Cardinality(Marked) >= 3
    /\ Len(stack) >= 2

\* C2: when delineate has terminated, every raster cell that flows into a
\* marked cell is itself marked, for every block layout.
C2_InflowMarked == pc = "done" => FlowsInto(Marked) \subseteq Marked

\* C3: a delineation of the same grid from the same seed under another block
\* size ends with the same set of marked global cells.
C3_SameUnderRetiling ==
    (pc = "done" /\ marked_before # NoRun) => Marked = marked_before

\* C4: whichever waiting window the main loop picks at each turn, the
\* delineation ends with the same marked global cells: the set that grows from
\* the seed by the marks of each cell's pop, which no order enters.
C4_AnyOrderSameMarks ==
    pc = "done" => \E M \in {Marked} : GrowsTo({seed}, M)

\* a delineation has ended in which two cells of two other windows flow into
\* the seed, so two windows waited at once, and one of them has a marked cell
\* upstream
C4_Witness ==
    /\ pc = "done"
    /\ \E x \in Marked : \E y \in Marked : \E z \in Marked :
           /\ x # y
           /\ fd[x] > 0 /\ downstream(x) = seed
           /\ fd[y] > 0 /\ downstream(y) = seed
           /\ fd[z] > 0 /\ downstream(z) = y
           /\ located(x).window # located(y).window
           /\ located(x).window # located(seed).window
           /\ located(y).window # located(seed).window

\* C5: the main loop of delineate ends, by returning or by an error.
C5_Terminates == <>(pc \in {"done", "crashed"})

(* -------------------------- claims: find_stream ------------------------- *)

\* C6: on a raster without a D8 cycle, find_stream ends: it returns a stream
\* cell, or raises for want of a stream, or raises because the point is out of
\* bounds.
C6_SnapEnds == Acyclic => <>(pc \in {"snapped", "no_stream", "out_of_bounds"})

C8_ViewsKept ==
    [][DOMAIN coverage'.windows # DOMAIN coverage.windows
          => \A w \in DOMAIN coverage.windows : view(coverage', w) = view(coverage, w)]_vars

\* three windows are registered, and a window that does not start at the
\* buffer's first row or first column has a true cell in its view
C8_Witness ==
    /\ pc = "accum"
    /\ Cardinality(DOMAIN coverage.windows) >= 3
    /\ \E w \in DOMAIN coverage.windows :
           /\ coverage.windows[w].r0 > 0 \/ coverage.windows[w].c0 > 0
           /\ \E p \in DOMAIN view(coverage, w) : view(coverage, w)[p]

\* C9: every registered window w has a view of shape (w.height, w.width), and
\* cell (i, j) of the view is the buffer cell the mosaic transform places at
\* global raster cell (w.row_off + i, w.col_off + j).
C9_ViewAligned ==
    \A w \in DOMAIN coverage.windows :
        /\ view_shape(coverage, w) = <<w.height, w.width>>
        /\ \A i \in 0..(w.height - 1) : \A j \in 0..(w.width - 1) :
               mosaic_cell(coverage, view_pos(coverage, w, i, j))
                   = <<w.row_off + i, w.col_off + j>>

\* the mosaic holds the window at the raster's corner and a window right of
\* and below it among three or more: whichever came first, an add_window call
\* has resized the buffer
C9_Witness ==
    /\ pc = "accum"
    /\ \E w \in DOMAIN coverage.windows : \E v \in DOMAIN coverage.windows :
           /\ w.row_off = 0 /\ w.col_off = 0
           /\ v.row_off > 0 /\ v.col_off > 0
           /\ coverage.shape # <<w.height, w.width>>
    /\ Cardinality(DOMAIN coverage.windows) >= 3

\* C29: after any sequence of add_window calls the bounds of the mosaic are the
\* bounding rectangle of the extents of the registered windows, the buffer has
\* the shape of the bounds in whole cells, the slice of every registered window
\* lies inside the buffer, and the origin of the transform, buffer cell (0, 0),
\* is the raster cell at the upper left corner of the bounds.
C29_BoundsAreUnion ==
    pc = "accum" =>
        \E W \in {DOMAIN coverage.windows} :
            /\ \A w \in W :
                   /\ window_extent(w).top <= coverage.top_accum
                   /\ window_extent(w).bottom >= coverage.bottom_accum
                   /\ window_extent(w).left >= coverage.left_accum
                   /\ window_extent(w).right <= coverage.right_accum
                   /\ 0 <= coverage.windows[w].r0
                   /\ coverage.windows[w].r0 <= coverage.windows[w].r1
                   /\ coverage.windows[w].r1 <= coverage.shape[1]
                   /\ 0 <= coverage.windows[w].c0
                   /\ coverage.windows[w].c0 <= coverage.windows[w].c1
                   /\ coverage.windows[w].c1 <= coverage.shape[2]
            /\ \E w \in W : window_extent(w).top = coverage.top_accum
            /\ \E w \in W : window_extent(w).bottom = coverage.bottom_accum
            /\ \E w \in W : window_extent(w).left = coverage.left_accum
            /\ \E w \in W : window_extent(w).right = coverage.right_accum
            /\ coverage.shape[1] * csy = coverage.top_accum - coverage.bottom_accum
            /\ coverage.shape[2] * csx = coverage.right_accum - coverage.left_accum
            /\ DOMAIN coverage.a = (0..(coverage.shape[1] - 1)) \X (0..(coverage.shape[2] - 1))
            /\ mosaic_cell(coverage, <<0, 0>>) =
                   <<MinOf({w.row_off : w \in W}), MinOf({w.col_off : w \in W})>>

\* the mosaic was started away from the raster's corner and has grown upwards
\* and to the left: its first window no longer starts at buffer cell (0, 0)
C29_Witness ==
    /\ pc = "accum"
    /\ Cardinality(DOMAIN coverage.windows) >= 3
    /\ \A w \in DOMAIN coverage.windows :
           (w.row_off > 0 /\ w.col_off > 0) =>
               (coverage.windows[w].r0 > 0 /\ coverage.windows[w].c0 > 0)
    /\ \E w \in DOMAIN coverage.windows : w.row_off > 0 /\ w.col_off > 0

\* C30: add_window called with a window that is registered returns the mosaic
\* as it is: the same buffer contents and shape, bounds and window slices.
C30_ReAddChangesNothing ==
    pc = "accum" =>
        \A w \in DOMAIN coverage.windows : add_window(coverage, w) = coverage

\* a mosaic of two or more windows with a true cell in a window that does not
\* start at the buffer's corner
C30_Witness ==
    /\ pc = "accum"
    /\ Cardinality(DOMAIN coverage.windows) >= 2
    /\ \E w \in DOMAIN coverage.windows :
           /\ coverage.windows[w].r0 > 0
           /\ \E p \in DOMAIN view(coverage, w) : view(coverage, w)[p]

(* ----------------------------- claims: codes ---------------------------- *)

\* C10 as written: for every code k a raster cell carries, the kernel's table
\* read at the offset of k, (offset[k].dr + 1, offset[k].dc + 1), holds k.
C10_InverseAtOffset ==
    \A c \in Cells :
        fd[c] \in 1..8 => inverse_code(offset(fd[c])[1], offset(fd[c])[2]) = fd[c]

\* C10: for every code k a raster cell carries, the kernel's table read at the
\* opposite of the offset of k, (1 - offset[k].dr, 1 - offset[k].dc), holds k:
\* the neighbour the kernel looks at carries the table's code exactly when it
\* flows into the centre cell.
C10_InverseAtOpposite ==
    \A c \in Cells :
        fd[c] \in 1..8 => inverse_code(-offset(fd[c])[1], -offset(fd[c])[2]) = fd[c]

\* the kernel has found a neighbour that carries the code of the table
C10_Witness ==
    /\ pc = "kernel"
    /\ basin # <<>>
    /\ \E k \in 1..Len(basin) : ReadCell(window, basin[k][1], basin[k][2]) \in 1..8

(* ------------------------ claims: delineate's call ---------------------- *)

\* C13: when the stream raster and the flow-direction raster differ in
\* dimensions, bounds or CRS, delineate does no delineation work: it builds no
\* stack and no mosaic and never calls the kernel.
C13_MismatchStops ==
    ~matches(ds, streams_ds) => pc \notin {"kernel", "hand_off", "pick", "done"}

(* ------------------------ claims: window geometry ----------------------- *)

\* C14: for every window w and every index (i, j), in range or not: when the
\* global cell (w.row_off + i, w.col_off + j) lies inside the raster,
\* intersecting_window(xy_from_window_index(i, j, w)) returns a block window
\* and an index inside it that name the same global cell; when the global cell
\* lies outside the raster it fails with the IndexError.
C14_RoundTrip ==
    pc \in {"located", "off_raster"} =>
        IF <<window.row_off + ij[1], window.col_off + ij[2]>> \in Cells
        THEN /\ pc = "located"
             /\ stack[1].window \in AllWindows
             /\ stack[1].window.row_off + stack[1].items[1][1] = window.row_off + ij[1]
             /\ stack[1].window.col_off + stack[1].items[1][2] = window.col_off + ij[2]
             /\ in_array(stack[1].items[1][1], stack[1].items[1][2],
                         <<stack[1].window.height, stack[1].window.width>>)
        ELSE pc = "off_raster"

\* an index outside its window on both axes is located in another window
C14_Witness ==
    /\ pc = "located"
    /\ (ij[1] < 0 \/ ij[1] >= window.height)
    /\ (ij[2] < 0 \/ ij[2] >= window.width)
    /\ stack[1].window.row_off # window.row_off
    /\ stack[1].window.col_off # window.col_off
    /\ stack[1].items[1] # <<0, 0>>

(* --------------------------- claims: the tracer ------------------------- *)

\* C15: when find_stream_task returns (found, i, j), exactly one of three cases
\* holds: found is true and (i, j) is an index of the window on a stream cell;
\* found is false and (i, j) is an index of the window whose fd is <= 0 (and
\* which is no stream cell, the stream test coming first); or found is false
\* and (i, j) is outside the window, one D8 step from a cell of the window
\* along that cell's code.
C15_ThreeOutcomes ==
    pc = "returned" =>
        \E shape \in {<<window.height, window.width>>} :
            /\ found <=> (in_array(ij[1], ij[2], shape) /\ StreamCell(window, ij[1], ij[2]))
            /\ (~found /\ in_array(ij[1], ij[2], shape)) => ReadCell(window, ij[1], ij[2]) <= 0
            /\ ~in_array(ij[1], ij[2], shape) =>
                   \E a \in 0..(shape[1] - 1), b \in 0..(shape[2] - 1) :
                       /\ ReadCell(window, a, b) > 0
                       /\ ~StreamCell(window, a, b)
                       /\ ij = <<a + offset(ReadCell(window, a, b))[1],
                                 b + offset(ReadCell(window, a, b))[2]>>

\* the walk has moved inside the window onto a stream cell whose fd is 0
C15_Witness ==
    /\ pc = "returned"
    /\ found
    /\ ReadCell(window, ij[1], ij[2]) <= 0
    /\ \E iw \in {intersecting_window(query.x, query.y)} :
           iw.window = window /\ <<iw.i, iw.j>> # ij

(* ---------------------- claims: find_stream on grids -------------------- *)

\* C16 as stated: on the 5 x 5 grid find_stream started at cell (4, 2) returns
\* the world coordinate (2.5, -4.5), in half cells (5, -9).
C16_SnapsToQueryCell ==
    (ds = LinearSpine.ds) => <>(pc = "snapped" /\ result = [x |-> 5, y |-> -9])

\* C16: on the 5 x 5 grid find_stream started at cell (4, 2) returns the centre
\* of the stream cell (0, 2), the world coordinate (2.5, -0.5), in half cells
\* (5, -1).
C16_SnapsToStreamCell ==
    (ds = LinearSpine.ds) => <>(pc = "snapped" /\ result = [x |-> 5, y |-> -1])

\* the walk up column 2 has crossed block boundaries and is on the stream cell
C16_Witness ==
    /\ ds = LinearSpine.ds
    /\ block_shape = <<2, 2>>
    /\ pc = "snapped"
    /\ window = Window(0, 2, 2, 2)
    /\ ij = <<0, 0>>

\* C17 as stated: on the 3 x 3 grid with fd all 0, find_stream queried at
\* (1.5, -1.5) fails with the error of a walk that left the raster ("No
\* streams found near the point").
C17_FailsNoStream ==
    (ds = SingleCell.ds) => <>(pc = "no_stream")

\* C17: on the 3 x 3 grid with fd all 0, find_stream queried at (1.5, -1.5)
\* fails at the start cell, whose fd is 0, with the error "The point is out of
\* bounds", before any walk.
C17_FailsOutOfBounds ==
    (ds = SingleCell.ds) =>
        /\ <>(pc = "out_of_bounds")
        /\ [](pc \in {"snap_start", "out_of_bounds"})

\* the start cell (1, 1) was located in a block of its own and rejected
C17_Witness ==
    /\ ds = SingleCell.ds
    /\ block_shape = <<1, 1>>
    /\ pc = "out_of_bounds"
    /\ window = Window(1, 1, 1, 1)
    /\ ij = <<0, 0>>

(* --------------------------- claims: the readers ------------------------ *)

\* C21: on an untiled (stripped) source the construction of the Raster fails
\* with the ValueError "Input raster should be tiled" and leaves no reader:
\* delineate ends there, with nothing read and nothing built.
C21_UntiledFails ==
    ~ds.is_tiled =>
        /\ pc \in {"start", "not_tiled"}
        /\ readers = NoReaders
        /\ stack = <<>>
        /\ coverage = NoCoverage

\* the call on the stripped source has failed
C21_Witness ==
    /\ ~ds.is_tiled
    /\ pc = "not_tiled"
    /\ readers = NoReaders

\* C18: when find_stream or delineate has returned or raised, the dataset of
\* every reader it opened is closed.
C18_ReadersClosed ==
    pc \in {"done", "snapped", "no_stream", "out_of_bounds"} =>
        \A n \in DOMAIN readers : ~readers[n].open

\* C20: over any sequence of reads on one open Raster, no window is read from
\* the dataset more than once, and an entry of the cache is never removed or
\* replaced: __getitem__ returns the cache's entry, so every read of a window
\* returns the buffer of its first read.
C20_ReadOncePerWindow ==
    [][\A n \in DOMAIN readers :
          /\ n \in DOMAIN readers'
          /\ \A w \in DOMAIN readers'[n].n_read :
                 /\ readers'[n].n_read[w] <= 1
                 /\ w \in DOMAIN readers'[n].data_cache
          /\ \A w \in DOMAIN readers[n].data_cache :
                 /\ w \in DOMAIN readers'[n].data_cache
                 /\ readers'[n].data_cache[w] = readers[n].data_cache[w]]_vars

\* three or more reads were made, of two windows only, the last of them of a
\* window that was in the cache
C20_Witness ==
    /\ pc = "reading"
    /\ tick = 1
    /\ Cardinality(DOMAIN readers["fd"].data_cache) = 2
    /\ readers["fd"].data_cache[window] = <<window, 1>>

(* ---------------------- claims: kernel and hand-off --------------------- *)

\* C23: on an acyclic raster and for a seed stack without duplicates, the basin
\* delineate_task returns holds exactly the cells of the window, other than
\* the seeds, with fd > 0 whose D8 path reaches a seed inside the window.
C23_BasinIsUpstream ==
    (pc = "kernel" /\ list_stack = <<>> /\ Acyclic) =>
        \E seeds \in {stack_items(stack, window)} :
            (\A a, b \in 1..Len(seeds) : seeds[a] = seeds[b] => a = b) =>
                {basin[k] : k \in 1..Len(basin)} =
                    UpstreamInWindow(window, {seeds[k] : k \in 1..Len(seeds)})

\* C24: during one delineation no cell is appended to a basin list or pushed
\* onto a work stack more than once: no list holds a cell twice, and no cell of
\* the basin of the running kernel call was marked in the mosaic before.
C24_NoCellTwice ==
    /\ \A k \in 1..Len(basin) : CountIn(basin, basin[k]) = 1
    /\ \A k \in 1..Len(list_stack) : CountIn(list_stack, list_stack[k]) = 1
    /\ \A n \in 1..Len(stack) : \A k \in 1..Len(stack[n].items) :
           CountIn(stack[n].items, stack[n].items[k]) = 1
    /\ pc = "kernel" =>
           \A k \in 1..Len(basin) :
               in_array(basin[k][1], basin[k][2], <<window.height, window.width>>) =>
                   ~view(coverage, window)[basin[k]]

\* C26: every edge the kernel returns for the current window is selected by
\* exactly one of the eight masks of next_delin.
C26_EdgeInOneBucket ==
    pc \in {"kernel", "hand_off"} =>
        \A k \in 1..Len(edges) :
            Cardinality({n \in 1..NBuckets :
                            bool_slice(n, edges[k], <<window.height, window.width>>)}) = 1

\* C27: when a non-empty bucket is handed to the window found for its first
\* edge, every edge of the bucket, moved by the first edge's offset, is an index
\* inside that window and names there the global cell it named relative to the
\* current window.
C27_BucketAligned ==
    pc = "hand_off" =>
        \E es \in {edge_subset(bucket)} :
        \E xy \in {xy_from_window_index(es[1][2], es[1][3], window)} :
        \E iw \in {intersecting_window(xy.x, xy.y)} :
            iw.ok =>
                \A k \in 1..Len(es) :
                \E i1 \in {es[k][2] + (iw.i - es[1][2])} :
                \E j1 \in {es[k][3] + (iw.j - es[1][3])} :
                    /\ in_array(i1, j1, <<iw.window.height, iw.window.width>>)
                    /\ iw.window.row_off + i1 = window.row_off + es[k][2]
                    /\ iw.window.col_off + j1 = window.col_off + es[k][3]

\* a bucket of two different edges is about to be handed to a window of the
\* raster
C27_Witness ==
    /\ pc = "hand_off"
    /\ \E es \in {edge_subset(bucket)} :
       \E xy \in {xy_from_window_index(es[1][2], es[1][3], window)} :
           /\ Len(es) >= 2
           /\ <<es[2][2], es[2][3]>> # <<es[1][2], es[1][3]>>
           /\ intersecting_window(xy.x, xy.y).ok

\* C22: while the kernel processes the popped cell c = (i, j), a neighbour n
\* inside the window is pushed and appended to basin if and only if fd[n] > 0
\* and the downstream neighbour of n under the tracer's offset table is c.
C22_PushIffFlowsIn ==
    (pc = "kernel" /\ list_stack # <<>>) =>
        \E c \in {list_stack[Len(list_stack)]} :
        \A n \in 1..Len(nbrs) :
        \E t \in {<<c[1] + nbrs[n][1], c[2] + nbrs[n][2]>>} :
            in_array(t[1], t[2], <<window.height, window.width>>) =>
                ((nbr_case(window, c[1], c[2], n) = "push") <=>
                    /\ ReadCell(window, t[1], t[2]) > 0
                    /\ <<t[1] + offset(ReadCell(window, t[1], t[2]))[1],
                          t[2] + offset(ReadCell(window, t[1], t[2]))[2]>> = c)


\* C11: every entry of the edges list of delineate_task lies outside the window
\* the kernel works on: row below 0 or from H on, or column below 0 or from W on.
C11_EdgesOutside ==
    pc \in {"kernel", "hand_off"} =>
        \A k \in 1..Len(edges) :
            ~in_array(edges[k][2], edges[k][3], <<window.height, window.width>>)

\* the hand-off at hand resolves no window: intersecting_window raises IndexError
\* for the representative edge of the mask
OffRasterBucket ==
    /\ pc = "hand_off"
    /\ \E es \in {edge_subset(bucket)} :
       \E xy \in {xy_from_window_index(es[1][2], es[1][3], window)} :
           ~intersecting_window(xy.x, xy.y).ok

\* C12, the step: a hand-off whose window cannot be resolved raises nothing,
\* leaves every stack and the mosaic as they are, and goes on to the next
\* non-empty mask, or to the main loop when there is none.
C12_BucketDropped ==
    [][OffRasterBucket =>
          /\ stack' = stack
          /\ coverage' = coverage
          /\ bucket' = next_bucket(bucket + 1)
          /\ pc' = IF bucket' = 0 THEN "pick" ELSE "hand_off"]_vars

\* C12: after a hand-off whose window cannot be resolved, the delineation
\* comes to its end.
C12_DropThenEnds == OffRasterBucket ~> (pc \in {"done", "crashed"})

\* C19: every index (i, j) held in stack[w] lies inside the window w.
C19_StackInWindow ==
    \A k \in 1..Len(stack) : \A n \in 1..Len(stack[k].items) :
        in_array(stack[k].items[n][1], stack[k].items[n][2],
                 <<stack[k].window.height, stack[k].window.width>>)

(* ----------------------- claims: stacks and mosaic ---------------------- *)

C28_MosaicIsProcessed ==
    pc = "done" => DOMAIN coverage.windows = kernel_calls

\* C28: when the delineation ends, every window the kernel was run on is
\* registered in the mosaic, and the windows registered are exactly the keys
\* of stack: the seed window and every window a bucket was handed to, whether
\* or not one of its edges was verified and pushed.
C28_MosaicIsHandedTo ==
    pc = "done" =>
        /\ located(seed).window \in kernel_calls
        /\ kernel_calls \subseteq DOMAIN coverage.windows
        /\ DOMAIN coverage.windows = {stack[n].window : n \in 1..Len(stack)}

\* the kernel ran on two windows and a third one is registered
C28_Witness ==
    /\ pc = "done"
    /\ Cardinality(kernel_calls) = 2
    /\ Cardinality(DOMAIN coverage.windows) > 2

(* ------------------------ claims: frame and kernel ---------------------- *)

\* C31: throughout find_stream and delineate no step changes the flow
\* directions or the stream grid a cached window buffer holds, and between two
\* constructions of the readers every buffer in a reader's data_cache stays
\* the buffer it was.
C31_CachesUntouched ==
    [][/\ fd' = fd
       /\ stream' = stream
       /\ pc \notin {"start", "snap_start"} =>
              \A n \in DOMAIN readers :
                  /\ n \in DOMAIN readers'
                  /\ \A w \in DOMAIN readers[n].data_cache :
                         /\ w \in DOMAIN readers'[n].data_cache
                         /\ readers'[n].data_cache[w] = readers[n].data_cache[w]]_vars

\* delineate(snap=True) has ended: the tracer found a stream cell, the kernel
\* marked cells of two windows after a hand-off that read the second window
C31_Witness ==
    /\ pc = "done"
    /\ found
    /\ "fd" \in DOMAIN readers
    /\ Cardinality(DOMAIN readers["fd"].data_cache) >= 2
    /\ Cardinality(kernel_calls) >= 2
    /\ Cardinality(Marked) >= 3

\* the cells the kernel pushes and the edges it records when it visits the
\* neighbours of cell (i, j) at every offset of nbrs that is not in skipped
VisitAllBut(i, j, skipped) ==
    LET N      == SelectSeq([n \in 1..Len(nbrs) |-> n], LAMBDA n : nbrs[n] \notin skipped)
        P      == SelectSeq(N, LAMBDA n : nbr_case(window, i, j, n) = "push")
        E      == SelectSeq(N, LAMBDA n : nbr_case(window, i, j, n) = "edge")
    IN  [pushed |-> [k \in 1..Len(P) |-> <<i + nbrs[P[k]][1], j + nbrs[P[k]][2]>>],
         met    |-> [k \in 1..Len(E) |->
                        <<inverse_code(nbrs[E[k]][1], nbrs[E[k]][2]),
                          i + nbrs[E[k]][1], j + nbrs[E[k]][2]>>]]

\* C32: in the three-argument kernel the first pop of a call (the stack is
\* still the one the kernel was called with) skips exactly the offsets of
\* avoid_offsets, pushing and recording nothing for them, and every later pop
\* of the call examines all eight offsets.
C32_AvoidFirstPopOnly ==
    [][(pc = "kernel" /\ list_stack # <<>> /\ pc' = "kernel") =>
          LET cell    == list_stack[Len(list_stack)]
              first   == list_stack = stack[1].items /\ basin = <<>> /\ edges = <<>>
              skipped == IF first THEN {avoid_offsets[k] : k \in 1..Len(avoid_offsets)} ELSE {}
              v       == VisitAllBut(cell[1], cell[2], skipped)
          IN  /\ list_stack' = SatExtend(SubSeq(list_stack, 1, Len(list_stack) - 1), v.pushed)
              /\ basin' = SatExtend(basin, v.pushed)
              /\ edges' = SatExtend(edges, v.met)]_vars

\* The kernel has returned. The cell popped first has an edge neighbour at an
\* offset that was not recorded for it (the offset was avoided), and the edge
\* at the same offset was recorded for a cell popped later, one the kernel
\* pushed itself.
C32_Witness ==
    /\ pc = "done"
    /\ avoid_offsets = << <<0, 0>> >>
    /\ \E s \in {stack[1].items[Len(stack[1].items)]} :
       \E n \in 1..Len(nbrs) :
           /\ nbr_case(window, s[1], s[2], n) = "edge"
           /\ \A k \in 1..Len(edges) :
                  <<edges[k][2], edges[k][3]>> # <<s[1] + nbrs[n][1], s[2] + nbrs[n][2]>>
           /\ \E b \in 1..Len(basin) : \E k \in 1..Len(edges) :
                  /\ nbr_case(window, basin[b][1], basin[b][2], n) = "edge"
                  /\ edges[k] = <<inverse_code(nbrs[n][1], nbrs[n][2]),
                                  basin[b][1] + nbrs[n][1], basin[b][2] + nbrs[n][2]>>

(* --------------------------- claims: the mosaic ------------------------- *)

\* C33: a global cell that is marked true in the mosaic is marked true after
\* every step of the delineation (a kernel pass, a hand-off with its
\* add_window reallocation, the choice of the next window).
C33_MarksStay ==
    [][Marked \subseteq Marked']_vars

\* the delineation has ended after the mosaic was reallocated with its old
\* cells moved down and to the right, the seed's mark among them
C33_Witness ==
    /\ pc = "done"
    /\ Cardinality(DOMAIN coverage.windows) >= 3
    /\ coverage.windows[stack[1].window].r0 > 0
    /\ coverage.windows[stack[1].window].c0 > 0
    /\ coord_to_idx(query.x, query.y) \in Marked
    /\ Cardinality(Marked) >= 3

\* the global cells of the indices idx of window w
global_cells(w, idx) == {<<w.row_off + idx[k][1], w.col_off + idx[k][2]>> : k \in 1..Len(idx)}

\* the buffer positions of the mosaic that lie in a registered window
InRegistered ==
    {p \in DOMAIN coverage.a :
        \E w \in DOMAIN coverage.windows :
            /\ p[1] \in SliceRows(coverage, coverage.windows[w])
            /\ p[2] \in SliceCols(coverage, coverage.windows[w])}

\* the global cells the orchestrator marks in the step taken: the seed, the
\* basin the kernel returned, the edge cells it stacks for a neighbour
MarkedByStep ==
    IF pc = "start" /\ stack' # <<>>
    THEN global_cells(stack'[1].window, stack'[1].items)
    ELSE IF pc = "kernel" THEN global_cells(window, basin)
    ELSE IF pc = "hand_off"
    THEN UNION {global_cells(stack'[n].window, stack'[n].items) : n \in 1..Len(stack')}
    ELSE {}

\* C34: in every reachable state a buffer cell of the mosaic outside every
\* registered window is false, and a cell becomes true only in a step in which
\* the orchestrator marks that global cell.
C34_OnlyMarkedTrue ==
    /\ [](\A p \in DOMAIN coverage.a : coverage.a[p] => p \in InRegistered)
    /\ [][(Marked' \ Marked) \subseteq MarkedByStep]_vars

\* the delineation has ended with a mosaic whose bounding rectangle holds a
\* cell of no registered window, and with marks in two windows
C34_Witness ==
    /\ pc = "done"
    /\ \E p \in DOMAIN coverage.a : p \notin InRegistered
    /\ \E v, w \in DOMAIN coverage.windows :
           /\ v # w
           /\ \E q \in DOMAIN view(coverage, v) : view(coverage, v)[q]
           /\ \E q \in DOMAIN view(coverage, w) : view(coverage, w)[q]

(* ----------------------- claims: reads of the kernel -------------------- *)

\* C35: whatever the shape of the window, when the kernel pops a cell of the
\* array, every neighbour whose flow direction it reads lies in the array:
\* 0 <= t_i < H and 0 <= t_j < W.
C35_ReadsInArray ==
    (pc = "kernel" /\ list_stack # <<>>) =>
        LET cell == list_stack[Len(list_stack)]
        IN  in_array(cell[1], cell[2], <<window.height, window.width>>) =>
                nbrs_avoiding(window, cell[1], cell[2], "unchecked", avoid_offsets) = <<>>

(* ------------------- claims: the index of a world point ----------------- *)

\* C36: when delineate has located its query point, a point of the raster's
\* extent that may lie on the line between two blocks or on the raster's
\* border, and intersecting_window succeeded for it, the local index returned
\* satisfies 0 <= i < window.height and 0 <= j < window.width.
C36_IndexInWindow ==
    pc # "start" =>
        LET iw == intersecting_window(query.x, query.y)
        IN  iw.ok => in_array(iw.i, iw.j, <<iw.window.height, iw.window.width>>)

====
